---- MODULE Spec2Model ----
(***************************************************************************)
(* The CI/CD workflow "Image Processing CI/CD Pipeline" as a state machine *)
(* of one workflow run: the triggering event, the job instances the jobs   *)
(* map expands to, the steps each instance executes, and the effects the   *)
(* deploy jobs have on the two environments.                               *)
(***************************************************************************)
EXTENDS Integers, Sequences, FiniteSets, Bags, TLC

VARIABLES
    ctx,         \* the github context of the event: event_name, ref, inputs
    run,         \* "none" (the event starts no run), "in_progress", "completed"
    conclusion,  \* the run's conclusion once completed, "" before
    st,          \* state of every job instance
    log,         \* per job instance, the results of the steps it went through
    bound,       \* environments whose secrets and variables a job was given
    applied,     \* manifest directories this run's kubectl apply was run on
    registry,    \* ghcr.io: the image every pushed component:tag names
    rollout,     \* per deploy job, what its kubectl rollout status calls gave
    peer,        \* the run a later push to the same ref starts: how far it is
    editor,      \* ImageEditor: the values of its useState hooks
    pending,     \* ImageEditor: file reads and requests without a result yet
    history,     \* ImageEditor: what was issued and shown so far
    up           \* docker-compose: the services that were started

vars ==
    <<ctx, run, conclusion, st, log, bound, applied, registry, rollout, peer,
      editor, pending, history, up>>

\* the state of the workflow run
pipeline ==
    <<ctx, run, conclusion, st, log, bound, applied, registry, rollout, peer>>

\* the state of the two other programs, which no step of the workflow changes
outside == <<editor, pending, history, up>>

----------------------------------------------------------------------------
(* The trigger: `on`                                                       *)

Ref(kind, name) == [kind |-> kind, name |-> name]

Branch(name) == Ref("heads", name)

NoInput == "-"

Event(event_name, ref, base, environment) ==
    [event_name |-> event_name, ref |-> ref, base |-> base,
     environment |-> environment]

\* push.branches: [ main, develop, 'feature/**', 'release/**' ]
PushBranches(name) ==
    \/ name = <<"main">>
    \/ name = <<"develop">>
    \/ Len(name) >= 2 /\ name[1] = "feature"
    \/ Len(name) >= 2 /\ name[1] = "release"

\* pull_request.branches: [ main, develop ] filters on the base branch
PullRequestBranches(name) ==
    \/ name = <<"main">>
    \/ name = <<"develop">>

\* workflow_dispatch.inputs.environment: a required choice
DispatchOptions == {"staging", "production"}

On(e) ==
    CASE e.event_name = "push" ->
            e.ref.kind = "heads" /\ PushBranches(e.ref.name)
      [] e.event_name = "pull_request" ->
            PullRequestBranches(e.base)
      [] e.event_name = "workflow_dispatch" ->
            e.environment \in DispatchOptions
      [] OTHER -> FALSE

BranchNames ==
    {<<"main">>, <<"develop">>, <<"feature", "x">>, <<"release", "1.0">>,
     <<"hotfix", "y">>}

Events ==
    {Event("push", Branch(b), <<>>, NoInput) : b \in BranchNames}
    \cup {Event("push", Ref("tags", <<"v1.0">>), <<>>, NoInput)}
    \cup {Event("pull_request", Ref("pull", <<"1", "merge">>), b, NoInput) :
            b \in {<<"main">>, <<"develop">>, <<"feature", "x">>}}
    \cup {Event("workflow_dispatch", Branch(b), <<>>, env) :
            b \in {<<"main">>, <<"develop">>}, env \in DispatchOptions}

----------------------------------------------------------------------------
(* The jobs                                                                *)

JobNames ==
    {"lint", "security-scan", "test", "build", "deploy-staging",
     "deploy-production"}

Components == {"frontend", "backend", "ml-service"}

NoMatrix == "-"

\* strategy.matrix of a job: its axes in the order they are declared, each
\* with its values in the order they are listed; no axis without a matrix
MatrixAxes(j) ==
    IF j \in {"lint", "build"}
    THEN << <<"frontend", "backend", "ml-service">> >>
    ELSE << >>

\* variant: the first axis varies fastest
RECURSIVE ExpandFirstFastest(_)
ExpandFirstFastest(axes) ==
    IF axes = << >> THEN << << >> >>
    ELSE LET rest == ExpandFirstFastest(Tail(axes))
             first == Head(axes)
         IN  [n \in 1..(Len(first) * Len(rest)) |->
                 <<first[((n - 1) % Len(first)) + 1]>>
                     \o rest[((n - 1) \div Len(first)) + 1]]

\* the combinations of a matrix, one per job instance: every value of the
\* first axis in turn, with every combination of the axes after it
RECURSIVE Expand(_)
Expand(axes) ==
    IF axes = << >> THEN << << >> >>
    ELSE LET rest == Expand(Tail(axes))
             first == Head(axes)
         IN  [n \in 1..(Len(first) * Len(rest)) |->
                 <<first[((n - 1) \div Len(rest)) + 1]>>
                     \o rest[((n - 1) % Len(rest)) + 1]]

\* the combinations of the matrix of every job
Combinations == [j \in JobNames |-> Expand(MatrixAxes(j))]

\* matrix.component of the instances of every job; a job without a matrix
\* has one instance
Matrices ==
    [j \in JobNames |->
        {IF Combinations[j][n] = << >> THEN NoMatrix
         ELSE Combinations[j][n][1] : n \in 1..Len(Combinations[j])}]

Matrix(j) == Matrices[j]

\* strategy.fail-fast: no job sets it, so it has its default, true
FailFast(j) == j \in {"lint", "build"}

Inst(j, c) == [job |-> j, component |-> c]

InstancesOf(j) == {Inst(j, c) : c \in Matrix(j)}

Instances == UNION {InstancesOf(j) : j \in JobNames}

\* variant: build declared with needs: test only
NeedsBuildOnlyTest(j) ==
    CASE j = "lint" -> {}
      [] j = "security-scan" -> {"lint"}
      [] j = "test" -> {"lint"}
      [] j = "build" -> {"test"}
      [] j = "deploy-staging" -> {"build"}
      [] j = "deploy-production" -> {"build"}

\* variant: test declared without needs
NeedsTestNothing(j) ==
    CASE j = "lint" -> {}
      [] j = "security-scan" -> {"lint"}
      [] j = "test" -> {}
      [] j = "build" -> {"test", "security-scan"}
      [] j = "deploy-staging" -> {"build"}
      [] j = "deploy-production" -> {"build"}

Needs(j) ==
    CASE j = "lint" -> {}
      [] j = "security-scan" -> {"lint"}
      [] j = "test" -> {"lint"}
      [] j = "build" -> {"test", "security-scan"}
      [] j = "deploy-staging" -> {"build"}
      [] j = "deploy-production" -> {"build"}

\* variant: deploy-staging declared with environment: production
EnvironmentProductionTwice(j) ==
    CASE j = "deploy-staging" -> "production"
      [] j = "deploy-production" -> "production"
      [] OTHER -> "-"

\* environment: of a job
Environment(j) ==
    CASE j = "deploy-staging" -> "staging"
      [] j = "deploy-production" -> "production"
      [] OTHER -> "-"

\* the directory of the manifests a deploy job applies (cd k8s/<dir>)
ManifestDir(j) ==
    CASE j = "deploy-staging" -> "staging"
      [] j = "deploy-production" -> "production"
      [] OTHER -> "-"

\* variant: deploy-staging's condition with || between ref and event_name
IfStagingRefOrPush(j, c) ==
    CASE j = "build" ->
            c.event_name = "push" \/ c.event_name = "workflow_dispatch"
      [] j = "deploy-staging" ->
            \/ c.ref = Branch(<<"develop">>) \/ c.event_name = "push"
            \/ c.event_name = "workflow_dispatch" /\ c.environment = "staging"
      [] j = "deploy-production" ->
            \/ c.ref = Branch(<<"main">>) /\ c.event_name = "push"
            \/ c.event_name = "workflow_dispatch"
               /\ c.environment = "production"
      [] OTHER -> TRUE

\* variant: deploy-production's condition without the event_name of a push
IfProductionAnyMain(j, c) ==
    CASE j = "build" ->
            c.event_name = "push" \/ c.event_name = "workflow_dispatch"
      [] j = "deploy-staging" ->
            \/ c.ref = Branch(<<"develop">>) /\ c.event_name = "push"
            \/ c.event_name = "workflow_dispatch" /\ c.environment = "staging"
      [] j = "deploy-production" ->
            \/ c.ref = Branch(<<"main">>)
            \/ c.event_name = "workflow_dispatch"
               /\ c.environment = "production"
      [] OTHER -> TRUE

\* variant: build declared without a condition
IfBuildAnyEvent(j, c) ==
    CASE j = "deploy-staging" ->
            \/ c.ref = Branch(<<"develop">>) /\ c.event_name = "push"
            \/ c.event_name = "workflow_dispatch" /\ c.environment = "staging"
      [] j = "deploy-production" ->
            \/ c.ref = Branch(<<"main">>) /\ c.event_name = "push"
            \/ c.event_name = "workflow_dispatch"
               /\ c.environment = "production"
      [] OTHER -> TRUE

\* jobs.<job>.if, as written (without the implicit success())
If(j, c) ==
    CASE j = "build" ->
            c.event_name = "push" \/ c.event_name = "workflow_dispatch"
      [] j = "deploy-staging" ->
            \/ c.ref = Branch(<<"develop">>) /\ c.event_name = "push"
            \/ c.event_name = "workflow_dispatch" /\ c.environment = "staging"
      [] j = "deploy-production" ->
            \/ c.ref = Branch(<<"main">>) /\ c.event_name = "push"
            \/ c.event_name = "workflow_dispatch"
               /\ c.environment = "production"
      [] OTHER -> TRUE

----------------------------------------------------------------------------
(* The steps of the jobs                                                   *)

AnyComponent == Components \cup {NoMatrix}

\* a step: its name, the matrix components its `if` holds for, and its
\* continue-on-error
Step(name, if, coe) == [name |-> name, if |-> if, coe |-> coe]

\* variant: the Python set-up declared for backend only
LintStepsPythonBackend ==
    << Step("Checkout repository", AnyComponent, FALSE),
       Step("Set up Node.js (Frontend)", {"frontend"}, FALSE),
       Step("Install frontend dependencies", {"frontend"}, FALSE),
       Step("Lint frontend", {"frontend"}, FALSE),
       Step("Set up Python (Backend & ML Service)", {"backend"}, FALSE),
       Step("Install backend dependencies", {"backend"}, FALSE),
       Step("Lint backend", {"backend"}, FALSE),
       Step("Install ML service dependencies", {"ml-service"}, FALSE),
       Step("Lint ML service", {"ml-service"}, FALSE) >>

LintSteps ==
    << Step("Checkout repository", AnyComponent, FALSE),
       Step("Set up Node.js (Frontend)", {"frontend"}, FALSE),
       Step("Install frontend dependencies", {"frontend"}, FALSE),
       Step("Lint frontend", {"frontend"}, FALSE),
       Step("Set up Python (Backend & ML Service)",
            {"backend", "ml-service"}, FALSE),
       Step("Install backend dependencies", {"backend"}, FALSE),
       Step("Lint backend", {"backend"}, FALSE),
       Step("Install ML service dependencies", {"ml-service"}, FALSE),
       Step("Lint ML service", {"ml-service"}, FALSE) >>

\* variant: the dependency scanning declared without continue-on-error
SecurityScanStepsStrict ==
    << Step("Checkout repository", AnyComponent, FALSE),
       Step("Run Trivy vulnerability scanner for Docker images",
            AnyComponent, FALSE),
       Step("Run dependency scanning", AnyComponent, FALSE) >>

SecurityScanSteps ==
    << Step("Checkout repository", AnyComponent, FALSE),
       Step("Run Trivy vulnerability scanner for Docker images",
            AnyComponent, FALSE),
       Step("Run dependency scanning", AnyComponent, TRUE) >>

TestSteps ==
    << Step("Checkout repository", AnyComponent, FALSE),
       Step("Set up Node.js", AnyComponent, FALSE),
       Step("Install frontend dependencies", AnyComponent, FALSE),
       Step("Run frontend tests", AnyComponent, FALSE),
       Step("Set up Python", AnyComponent, FALSE),
       Step("Install backend dependencies", AnyComponent, FALSE),
       Step("Run backend tests", AnyComponent, FALSE),
       Step("Install ML service dependencies", AnyComponent, FALSE),
       Step("Run ML service tests", AnyComponent, FALSE),
       Step("Upload coverage to Codecov", AnyComponent, FALSE) >>

BuildSteps ==
    << Step("Checkout repository", AnyComponent, FALSE),
       Step("Set up Docker Buildx", AnyComponent, FALSE),
       Step("Login to GitHub Container Registry", AnyComponent, FALSE),
       Step("Extract metadata", AnyComponent, FALSE),
       Step("Build and push Docker image", AnyComponent, FALSE) >>

\* variant: the smoke tests declared with continue-on-error: true
DeployStepsSmokeIgnored ==
    << Step("Checkout repository", AnyComponent, FALSE),
       Step("Set up kubectl", AnyComponent, FALSE),
       Step("Configure AWS credentials", AnyComponent, FALSE),
       Step("Update kubeconfig", AnyComponent, FALSE),
       Step("Set image names", AnyComponent, FALSE),
       Step("Deploy to Kubernetes", AnyComponent, FALSE),
       Step("Verify deployment", AnyComponent, FALSE),
       Step("Run smoke tests", AnyComponent, TRUE) >>

DeploySteps ==
    << Step("Checkout repository", AnyComponent, FALSE),
       Step("Set up kubectl", AnyComponent, FALSE),
       Step("Configure AWS credentials", AnyComponent, FALSE),
       Step("Update kubeconfig", AnyComponent, FALSE),
       Step("Set image names", AnyComponent, FALSE),
       Step("Deploy to Kubernetes", AnyComponent, FALSE),
       Step("Verify deployment", AnyComponent, FALSE),
       Step("Run smoke tests", AnyComponent, FALSE) >>

Steps(j) ==
    CASE j = "lint" -> LintSteps
      [] j = "security-scan" -> SecurityScanSteps
      [] j = "test" -> TestSteps
      [] j = "build" -> BuildSteps
      [] j = "deploy-staging" -> DeploySteps
      [] j = "deploy-production" -> DeploySteps

\* the steps whose command changes something outside the runner even when
\* it exits non-zero part way (kubectl apply -f . over several manifests)
AppliesManifests(step) == step.name = "Deploy to Kubernetes"

\* the step that pushes the image (push: true)
PushesImage(step) == step.name = "Build and push Docker image"

\* the step that waits for the rollouts (kubectl rollout status)
ChecksRollout(step) == step.name = "Verify deployment"

\* the deployments `Verify deployment` waits for, one command each, in the
\* order of the script
RolloutChecks == <<"frontend", "backend", "ml-service">>

\* variant: the script run by a shell without -e
ErrExitOff == FALSE

\* run: without shell: is run by bash -e, which stops at the first command
\* that fails
ErrExit == TRUE

\* what the commands of a script of n commands can give, in order: with -e
\* none runs after one that failed
ScriptRuns(n) ==
    {r \in UNION {[1..m -> {"success", "failure"}] : m \in 1..n} :
        /\ Len(r) < n => ErrExit /\ r[Len(r)] = "failure"
        /\ ErrExit => \A k \in 1..(Len(r) - 1) : r[k] = "success"}

\* the exit status of a script: that of the last command it ran
ExitStatus(results) == results[Len(results)]

----------------------------------------------------------------------------
(* Images and tags                                                         *)

HexDigits ==
    <<"0", "1", "2", "3", "4", "5", "6", "7", "8", "9", "a", "b", "c", "d",
      "e", "f">>

\* the length of a commit SHA in full (format=long)
ShaLen == 40

\* cut -c1-7
ShortLen == 7

\* github.sha: the commit of this run
GithubSha == [n \in 1..ShaLen |-> HexDigits[(n % 16) + 1]]

\* the commit that the ref pointed to before, built by an earlier run
ParentSha == [n \in 1..ShaLen |-> HexDigits[((3 * n + 5) % 16) + 1]]

\* a tag: its text after its prefix
Tag(prefix, text) == [prefix |-> prefix, text |-> text]

\* variant: the tags with type=raw,value=latest added
MetadataTagsWithLatest(c, sha) ==
    (IF c.ref.kind = "heads" THEN {Tag("", c.ref.name)} ELSE {})
    \cup (IF c.event_name = "pull_request"
          THEN {Tag("pr-", <<c.ref.name[1]>>)} ELSE {})
    \cup (IF c.ref.kind = "tags" THEN {Tag("", c.ref.name)} ELSE {})
    \cup {Tag("", sha)}
    \cup {Tag("", <<"latest">>)}

\* steps.meta.outputs.tags of docker/metadata-action for a commit `sha`
MetadataTags(c, sha) ==
    \* type=ref,event=branch
    (IF c.ref.kind = "heads" THEN {Tag("", c.ref.name)} ELSE {})
    \* type=ref,event=pr
    \cup (IF c.event_name = "pull_request"
          THEN {Tag("pr-", <<c.ref.name[1]>>)} ELSE {})
    \* type=semver,pattern={{version}}
    \cup (IF c.ref.kind = "tags" THEN {Tag("", c.ref.name)} ELSE {})
    \* type=sha,format=long,prefix=
    \cup {Tag("", sha)}

Entry(component, tag, image) ==
    [component |-> component, tag |-> tag, image |-> image]

\* docker push of the image built from commit `sha` under `tags`
Push(reg, component, tags, sha) ==
    {r \in reg : ~(r.component = component /\ r.tag \in tags)}
    \cup {Entry(component, t, sha) : t \in tags}

\* what the build job of the run before this one on the same ref left
EarlierBuild(c) ==
    IF On(c) /\ c.event_name \in {"push", "workflow_dispatch"}
    THEN {Entry(component, t, ParentSha) :
            component \in Components, t \in MetadataTags(c, ParentSha)}
    ELSE {}

\* the image reference a deploy job writes into the manifest of a component
\* (Set image names)
ManifestImage(component) ==
    [component |-> component,
     tag |-> Tag("sha-", SubSeq(GithubSha, 1, ShortLen))]

----------------------------------------------------------------------------
(* Results                                                                 *)

Terminal(s) == s \in {"success", "failure", "skipped", "cancelled"}

Resolved(j) == \A i \in InstancesOf(j) : Terminal(st[i])

\* the result of a job as the jobs that need it see it
Result(j) ==
    IF ~Resolved(j) THEN "pending"
    ELSE IF \E i \in InstancesOf(j) : st[i] = "failure" THEN "failure"
    ELSE IF \E i \in InstancesOf(j) : st[i] = "cancelled" THEN "cancelled"
    ELSE IF \E i \in InstancesOf(j) : st[i] = "skipped" THEN "skipped"
    ELSE "success"

\* variant: a job is decided only once the jobs it needs have succeeded
NeedsSucceeded(j) ==
    \A a \in Needs(j) : \A i \in InstancesOf(a) : st[i] = "success"

\* needs: a job is decided once every instance of every job it needs is done
NeedsResolved(j) == \A a \in Needs(j) : Resolved(a)

\* variant: every condition written with always()
SuccessAlways(j) == TRUE

\* the status check every `if` without one gets: success()
Success(j) == \A a \in Needs(j) : Result(a) = "success"

ShouldRun(j) == Success(j) /\ If(j, ctx)

AllTerminal == \A i \in Instances : Terminal(st[i])

\* variant: a job that did not succeed fails the run
ConclusionAllSucceeded ==
    IF \E i \in Instances : st[i] # "success" THEN "failure" ELSE "success"

\* no job has continue-on-error, so any failed job fails the run
Conclusion ==
    IF \E i \in Instances : st[i] = "failure" THEN "failure"
    ELSE IF \E i \in Instances : st[i] = "cancelled" THEN "cancelled"
    ELSE "success"

\* the steps from the next one on whose `if` is false for this matrix
\* component are skipped, up to the next step that runs
RECURSIVE SkipSteps(_, _)
SkipSteps(i, results) ==
    IF /\ Len(results) < Len(Steps(i.job))
       /\ i.component \notin Steps(i.job)[Len(results) + 1].if
    THEN SkipSteps(i, Append(results, "skipped"))
    ELSE results

NextStep(i) == Steps(i.job)[Len(log[i]) + 1]

\* the state of an instance whose step results are `results`, the last of
\* them, if any, from a step that did not abort the job
After(i, results) ==
    IF Len(results) = Len(Steps(i.job)) THEN "success" ELSE "running"

----------------------------------------------------------------------------
(* The two other programs before anything happened in them                 *)

\* the id of an image object that has none (undefined)
NoId == "undefined"

\* useState(null) of currentImage and originalImage
NoImage ==
    [file |-> "null", src |-> [kind |-> "null", of |-> "null"], id |-> NoId]

\* useState(null) of objectDetectionResults
NoDetections == [detections |-> "null"]

\* the button Show Original is not held down
NoPress ==
    [file |-> "-", src |-> [kind |-> "-", of |-> "-"], id |-> NoId]

\* useState of processingSettings, and what onDrop and handleReset set
DefaultSettings ==
    [brightness |-> 0, contrast |-> 0, saturation |-> 0, sharpness |-> 0,
     selectedFilter |-> "null", cropDimensions |-> "null"]

\* the component after its first render
Mounted ==
    /\ editor = [currentImage |-> NoImage,
                 originalImage |-> NoImage,
                 processingSettings |-> DefaultSettings,
                 previewMode |-> "split",
                 isProcessing |-> FALSE,
                 objectDetectionResults |-> NoDetections]
    /\ pending = EmptyBag
    /\ history = [beforePress |-> NoPress]

\* no service of the compose file was started
ComposeDown == up = {}

----------------------------------------------------------------------------
(* The run                                                                 *)

Init ==
    /\ Mounted
    /\ ComposeDown
    /\ ctx \in Events
    /\ run = IF On(ctx) THEN "in_progress" ELSE "none"
    /\ conclusion = ""
    /\ st = [i \in Instances |-> "pending"]
    /\ log = [i \in Instances |-> <<>>]
    /\ bound = {}
    /\ applied = {}
    /\ registry = EarlierBuild(ctx)
    /\ rollout = [j \in {"deploy-staging", "deploy-production"} |-> << >>]
    /\ peer = "none"

\* an instance starts: its job's needs are done and its condition holds
StartInstance(i) ==
    /\ run = "in_progress"
    /\ st[i] = "pending"
    /\ NeedsResolved(i.job)
    /\ ShouldRun(i.job)
    /\ log' = [log EXCEPT ![i] = SkipSteps(i, <<>>)]
    /\ st' = [st EXCEPT ![i] = After(i, log'[i])]
    /\ bound' = IF Environment(i.job) = "-" THEN bound
                ELSE bound \cup {Environment(i.job)}
    /\ UNCHANGED <<ctx, run, conclusion, applied, registry,
                 rollout, peer, outside>>

\* a job whose condition is false is skipped, with all its instances
SkipJob(j) ==
    /\ run = "in_progress"
    /\ \A i \in InstancesOf(j) : st[i] = "pending"
    /\ NeedsResolved(j)
    /\ ~ShouldRun(j)
    /\ st' = [i \in Instances |-> IF i.job = j THEN "skipped" ELSE st[i]]
    /\ UNCHANGED <<ctx, run, conclusion, log, bound, applied, registry,
                 rollout, peer, outside>>

\* variant: the steps after a failed one still run (as with if: always()),
\* only the failure of the last step ends the job
AbortsAtLastStep(i, outcome) ==
    /\ outcome = "failure"
    /\ ~NextStep(i).coe
    /\ Len(log[i]) + 1 = Len(Steps(i.job))

\* the failure of a step without continue-on-error ends the job: the steps
\* after it have the implicit condition success()
Aborts(i, outcome) == outcome = "failure" /\ ~NextStep(i).coe

\* a step runs and ends with `outcome`; `effect` says whether a failing
\* command had changed its target before it failed
RunStep(i, outcome, effect) ==
    /\ run = "in_progress"
    /\ st[i] = "running"
    /\ outcome = "success" => effect
    /\ (/\ outcome = "failure"
        /\ ~AppliesManifests(NextStep(i))
        /\ ~PushesImage(NextStep(i))) => ~effect
    /\ registry' = IF PushesImage(NextStep(i)) /\ effect
                   THEN Push(registry, i.component,
                             MetadataTags(ctx, GithubSha), GithubSha)
                   ELSE registry
    /\ applied' = IF AppliesManifests(NextStep(i)) /\ effect
                  THEN applied \cup {ManifestDir(i.job)}
                  ELSE applied
    /\ IF ChecksRollout(NextStep(i))
       THEN \E results \in ScriptRuns(Len(RolloutChecks)) :
                /\ ExitStatus(results) = outcome
                /\ rollout' = [rollout EXCEPT ![i.job] = results]
       ELSE rollout' = rollout
    /\ IF Aborts(i, outcome)
       THEN /\ log' = [log EXCEPT ![i] = Append(@, outcome)]
            /\ st' = [st EXCEPT ![i] = "failure"]
       ELSE /\ log' = [log EXCEPT ![i] = SkipSteps(i, Append(@, outcome))]
            /\ st' = [st EXCEPT ![i] = After(i, log'[i])]
    /\ UNCHANGED <<ctx, run, conclusion, bound, peer, outside>>

\* fail-fast: the failure of a matrix instance cancels the instances of the
\* same job that are queued or in progress
CancelInstance(i) ==
    /\ run = "in_progress"
    /\ FailFast(i.job)
    /\ st[i] \in {"pending", "running"}
    /\ \E k \in InstancesOf(i.job) : st[k] = "failure"
    /\ st' = [st EXCEPT ![i] = "cancelled"]
    /\ UNCHANGED <<ctx, run, conclusion, log, bound, applied, registry,
                 rollout, peer, outside>>

\* the run completes when every instance is done
CompleteRun ==
    /\ run = "in_progress"
    /\ AllTerminal
    /\ run' = "completed"
    /\ conclusion' = Conclusion
    /\ UNCHANGED <<ctx, st, log, bound, applied, registry,
                 rollout, peer, outside>>

Next ==
    \/ \E i \in Instances : StartInstance(i)
    \/ \E j \in JobNames : SkipJob(j)
    \/ \E i \in Instances, outcome \in {"success", "failure"},
          effect \in BOOLEAN : RunStep(i, outcome, effect)
    \/ \E i \in Instances : CancelInstance(i)
    \/ CompleteRun

Spec == Init /\ [][Next]_vars

\* the runners execute every job that can start and every step they hold
FairSpec == Spec /\ WF_vars(Next)

----------------------------------------------------------------------------
(* A later push to the same ref while the run is in progress. The workflow *)
(* has no concurrency: key, so the push starts a second run of it and the  *)
(* run in progress goes on; the two runs share the environments. The       *)
(* second run is followed as far as its deploy job: "running" until that   *)
(* job starts kubectl apply, "applying" from there to the end of its       *)
(* rollout check, then "done".                                             *)

LaterPush ==
    /\ run = "in_progress"
    /\ ctx.event_name = "push"
    /\ peer = "none"
    /\ peer' = "running"
    /\ UNCHANGED <<ctx, run, conclusion, st, log, bound, applied, registry,
                 rollout, outside>>

\* the deploy jobs whose condition holds for the pushed ref
PeerDeploys == {j \in JobNames : Environment(j) # "-" /\ If(j, ctx)}

\* the second run's deploy job runs Deploy to Kubernetes
PeerApplies ==
    /\ peer = "running"
    /\ PeerDeploys # {}
    /\ peer' = "applying"
    /\ UNCHANGED <<ctx, run, conclusion, st, log, bound, applied, registry,
                 rollout, outside>>

\* the second run ends: after its rollout check, or before any deploy job
PeerEnds ==
    /\ peer \in {"running", "applying"}
    /\ peer' = "done"
    /\ UNCHANGED <<ctx, run, conclusion, st, log, bound, applied, registry,
                 rollout, outside>>

TwoRunsInit == Init /\ ctx.event_name = "push"

TwoRunsNext == Next \/ LaterPush \/ PeerApplies \/ PeerEnds

TwoRunsSpec == TwoRunsInit /\ [][TwoRunsNext]_vars

----------------------------------------------------------------------------
(* ImageEditor: the component's state, the file reads and requests it      *)
(* started, and one action per event handler and callback. The tab shown   *)
(* (selectedTab) is left out: every tab can be selected at any time and no *)
(* handler reads it.                                                       *)

Files == {"a.png", "b.png"}

\* how many file reads and requests are without a result at one time
MaxPending == 2

\* reader.result, the data URL of the dropped file
Original(file) == [kind |-> "original", of |-> file]

\* `data:image/jpeg;base64,${data.processedImage}` of the response to the
\* filter request for the image with this id
ProcessedSrc(id) == [kind |-> "processed", of |-> id]

\* data.imageId of the response to the upload of this file
ImageId(file) == file

\* data.detections of the response to the detection request for this id
Detections(id) == [detections |-> id]

\* an image object; width and height follow from the file
Img(file, src, id) == [file |-> file, src |-> src, id |-> id]

\* what onDrop puts in originalImage and currentImage: no id
Loaded(file) == Img(file, Original(file), NoId)

Item(kind, of) == [kind |-> kind, of |-> of]

Started1(item) ==
    /\ BagCardinality(pending) < MaxPending
    /\ pending' = pending (+) SetToBag({item})

Settled(item) ==
    /\ BagIn(item, pending)
    /\ pending' = pending (-) SetToBag({item})

Outstanding(kinds) ==
    {item \in BagToSet(pending) : item.kind \in kinds}

\* onDrop: the first accepted file is handed to a FileReader
OnDrop(file) ==
    /\ Started1(Item("read", file))
    /\ UNCHANGED <<editor, history, pipeline, up>>

\* reader.onload, then img.onload
ImgOnLoad(item) ==
    /\ item.kind = "read"
    /\ Settled(item)
    /\ editor' = [editor EXCEPT
                      !.originalImage = Loaded(item.of),
                      !.currentImage = Loaded(item.of),
                      !.processingSettings = DefaultSettings,
                      !.objectDetectionResults = NoDetections]
    /\ UNCHANGED <<history, pipeline, up>>

\* the file cannot be decoded: img.onload is never called
ImgNeverLoads(item) ==
    /\ item.kind = "read"
    /\ Settled(item)
    /\ UNCHANGED <<editor, history, pipeline, up>>

\* Upload to Begin Editing, rendered while the image has no id
HandleUpload ==
    /\ editor.currentImage # NoImage
    /\ editor.currentImage.id = NoId
    /\ Started1(Item("upload", editor.currentImage.file))
    /\ UNCHANGED <<editor, history, pipeline, up>>

\* uploadMutation: onSuccess, onError
UploadSettled(item, ok) ==
    /\ item.kind = "upload"
    /\ Settled(item)
    /\ editor' = IF ok
                 THEN [editor EXCEPT !.currentImage.id = ImageId(item.of)]
                 ELSE editor
    /\ UNCHANGED <<history, pipeline, up>>

\* the brightness slider
OnChangeBrightness(val) ==
    /\ editor' = [editor EXCEPT !.processingSettings.brightness = val]
    /\ UNCHANGED <<pending, history, pipeline, up>>

\* variant: Apply Changes and Detect Objects not disabled while processing
EnabledWhileProcessing ==
    /\ editor.currentImage # NoImage
    /\ editor.currentImage.id # NoId

\* disabled={!currentImage?.id || isProcessing} of Apply Changes and of
\* Detect Objects
Enabled ==
    /\ editor.currentImage # NoImage
    /\ editor.currentImage.id # NoId
    /\ ~editor.isProcessing

\* Apply Changes
ApplyProcessingSettings ==
    /\ Enabled
    /\ editor.originalImage # NoImage
    /\ editor' = [editor EXCEPT !.isProcessing = TRUE]
    /\ Started1(Item("filter", editor.currentImage.id))
    /\ UNCHANGED <<history, pipeline, up>>

\* filterMutation: onSuccess, onError
FilterSettled(item, ok) ==
    /\ item.kind = "filter"
    /\ Settled(item)
    /\ editor' = IF ok
                 THEN [editor EXCEPT
                          !.isProcessing = FALSE,
                          !.currentImage.src = ProcessedSrc(item.of),
                          !.currentImage.id = item.of]
                 ELSE [editor EXCEPT !.isProcessing = FALSE]
    /\ UNCHANGED <<history, pipeline, up>>

\* Detect Objects
HandleObjectDetection ==
    /\ Enabled
    /\ editor' = [editor EXCEPT !.isProcessing = TRUE]
    /\ Started1(Item("detect", editor.currentImage.id))
    /\ UNCHANGED <<history, pipeline, up>>

\* detectObjectsMutation: onSuccess, onError
DetectSettled(item, ok) ==
    /\ item.kind = "detect"
    /\ Settled(item)
    /\ editor' = IF ok
                 THEN [editor EXCEPT
                          !.isProcessing = FALSE,
                          !.objectDetectionResults = Detections(item.of)]
                 ELSE [editor EXCEPT !.isProcessing = FALSE]
    /\ UNCHANGED <<history, pipeline, up>>

\* Reset, disabled without an image
HandleReset ==
    /\ editor.currentImage # NoImage
    /\ editor.originalImage # NoImage
    /\ editor' = [editor EXCEPT
                      !.currentImage = editor.originalImage,
                      !.processingSettings = DefaultSettings,
                      !.objectDetectionResults = NoDetections]
    /\ UNCHANGED <<pending, history, pipeline, up>>

PreviewModes == {"split", "side-by-side", "before-after"}

SetPreviewMode(mode) ==
    /\ editor' = [editor EXCEPT !.previewMode = mode]
    /\ UNCHANGED <<pending, history, pipeline, up>>

\* the button Show Original is rendered
BeforeButton ==
    /\ editor.currentImage # NoImage
    /\ editor.previewMode = "before-after"

\* Show Original is pressed
OnMouseDown ==
    /\ BeforeButton
    /\ history.beforePress = NoPress
    /\ editor' = IF editor.originalImage # NoImage
                 THEN [editor EXCEPT !.currentImage = editor.originalImage]
                 ELSE editor
    /\ history' = [history EXCEPT !.beforePress = editor.currentImage]
    /\ UNCHANGED <<pending, pipeline, up>>

\* Show Original is released: setCurrentImage(prev => ({ ...prev }))
OnMouseUp ==
    /\ BeforeButton
    /\ history.beforePress # NoPress
    /\ editor' = [editor EXCEPT !.currentImage = editor.currentImage]
    /\ history' = [history EXCEPT !.beforePress = NoPress]
    /\ UNCHANGED <<pending, pipeline, up>>

\* the pointer leaves Show Original, pressed or not
OnMouseLeave ==
    /\ BeforeButton
    /\ editor' = [editor EXCEPT !.currentImage = editor.currentImage]
    /\ history' = [history EXCEPT !.beforePress = NoPress]
    /\ UNCHANGED <<pending, pipeline, up>>

\* the event that starts no workflow run
TagPush == Event("push", Ref("tags", <<"v1.0">>), <<>>, NoInput)

EditorInit == Init /\ ctx = TagPush

EditorNext ==
    \/ \E file \in Files : OnDrop(file)
    \/ \E item \in BagToSet(pending) : ImgOnLoad(item)
    \/ \E item \in BagToSet(pending) : ImgNeverLoads(item)
    \/ HandleUpload
    \/ \E item \in BagToSet(pending), ok \in BOOLEAN : UploadSettled(item, ok)
    \/ \E val \in {0, 10} : OnChangeBrightness(val)
    \/ ApplyProcessingSettings
    \/ \E item \in BagToSet(pending), ok \in BOOLEAN : FilterSettled(item, ok)
    \/ HandleObjectDetection
    \/ \E item \in BagToSet(pending), ok \in BOOLEAN : DetectSettled(item, ok)
    \/ HandleReset
    \/ \E mode \in PreviewModes : SetPreviewMode(mode)
    \/ OnMouseDown
    \/ OnMouseUp
    \/ OnMouseLeave

EditorSpec == EditorInit /\ [][EditorNext]_vars

----------------------------------------------------------------------------
(* docker-compose.yml: the services, what each depends on and the networks *)
(* it is attached to; docker compose up starts a service once the services *)
(* it depends on were started.                                             *)

Services ==
    {"frontend", "backend", "ml-service", "db", "redis", "worker",
     "prometheus", "grafana", "minio", "adminer", "jaeger"}

\* services.<name>.depends_on
DependsOn(s) ==
    CASE s = "frontend" -> {"backend"}
      [] s = "backend" -> {"db", "redis", "ml-service"}
      [] s = "worker" -> {"backend", "redis", "ml-service"}
      [] s = "prometheus" -> {"backend", "frontend"}
      [] s = "grafana" -> {"prometheus"}
      [] s = "adminer" -> {"db"}
      [] OTHER -> {}

\* services.<name>.networks
Networks(s) ==
    CASE s = "frontend" -> {"app-network"}
      [] s = "backend" -> {"app-network", "db-network"}
      [] s = "ml-service" -> {"app-network"}
      [] s = "db" -> {"db-network"}
      [] s = "redis" -> {"db-network"}
      [] s = "worker" -> {"app-network", "db-network"}
      [] s = "prometheus" -> {"monitoring-network"}
      [] s = "grafana" -> {"monitoring-network"}
      [] s = "minio" -> {"app-network"}
      [] s = "adminer" -> {"db-network"}
      [] s = "jaeger" -> {"monitoring-network"}

\* docker compose up starts service s
ComposeUp(s) ==
    /\ s \notin up
    /\ DependsOn(s) \subseteq up
    /\ up' = up \cup {s}
    /\ UNCHANGED <<pipeline, editor, pending, history>>

ComposeInit == Init /\ ctx = TagPush

ComposeNext == \E s \in Services : ComposeUp(s)

ComposeSpec == ComposeInit /\ [][ComposeNext]_vars

----------------------------------------------------------------------------
(* What the properties below speak about                                   *)

Lint(c) == Inst("lint", c)

Build(c) == Inst("build", c)

SecurityScan == Inst("security-scan", NoMatrix)

Test == Inst("test", NoMatrix)

DeployStaging == Inst("deploy-staging", NoMatrix)

DeployProduction == Inst("deploy-production", NoMatrix)

DeployJobs == {DeployStaging, DeployProduction}

\* the instance went through running
Started(i) == st[i] \in {"running", "success", "failure"} \/ log[i] # <<>>

AllSuccess(j) == \A i \in InstancesOf(j) : st[i] = "success"

Failed(j) == \E i \in InstancesOf(j) : st[i] = "failure"

\* the dependencies as the stage order states them: <<B, A>>, B needs A
StatedNeeds ==
    {<<"security-scan", "lint">>, <<"test", "lint">>,
     <<"build", "test">>, <<"build", "security-scan">>,
     <<"deploy-staging", "build">>, <<"deploy-production", "build">>}

RECURSIVE Downstream(_, _)
Downstream(js, n) ==
    IF n = 0 THEN js
    ELSE Downstream(js \cup {p[1] : p \in {q \in StatedNeeds : q[2] \in js}},
                    n - 1)

\* B and every transitive dependent of B
DependentsFrom(b) == Downstream({b}, Cardinality(JobNames))

\* the promotion rules as stated: staging on a push to develop or a
\* dispatch for staging, production on a push to main or a dispatch for
\* production
StatedRule(i) ==
    IF i = DeployStaging
    THEN \/ ctx.event_name = "push" /\ ctx.ref = Branch(<<"develop">>)
         \/ ctx.event_name = "workflow_dispatch"
            /\ ctx.environment = "staging"
    ELSE \/ ctx.event_name = "push" /\ ctx.ref = Branch(<<"main">>)
         \/ ctx.event_name = "workflow_dispatch"
            /\ ctx.environment = "production"

----------------------------------------------------------------------------
(* C1: when a job A that a job B needs has a failed instance, no instance  *)
(* of B or of a transitive dependent of B ever runs: it stays pending and  *)
(* then is skipped, and it is skipped when the run has completed.          *)
C1_FailurePropagates ==
    \A p \in StatedNeeds :
        Failed(p[2]) =>
            \A d \in DependentsFrom(p[1]) : \A i \in InstancesOf(d) :
                /\ st[i] \in {"pending", "skipped"}
                /\ log[i] = <<>>
                /\ run = "completed" => st[i] = "skipped"

C1_Witness ==
    /\ run = "completed"
    /\ st[SecurityScan] = "failure"
    /\ st[Test] = "success"
    /\ \A c \in Components : st[Build(c)] = "skipped"
    /\ \A d \in DeployJobs : st[d] = "skipped"

(* C2: an instance that is running or has run has every instance of every  *)
(* job it needs in a terminal state.                                       *)
C2_StartsAfterNeeds ==
    \A i \in Instances :
        Started(i) =>
            \A p \in StatedNeeds :
                p[1] = i.job => \A k \in InstancesOf(p[2]) : Terminal(st[k])

C2_Witness ==
    /\ st[Test] = "running"
    /\ st[SecurityScan] = "pending"
    /\ \A c \in Components : st[Lint(c)] = "success"

(* C3: a manifest is applied, and a deploy job runs, only when the three   *)
(* lint instances, test, security-scan and the three build instances of    *)
(* the run have all succeeded.                                             *)
C3_DeployAfterStages ==
    (applied # {} \/ \E d \in DeployJobs : Started(d)) =>
        \A j \in {"lint", "test", "security-scan", "build"} : AllSuccess(j)

C3_Witness ==
    /\ "production" \in applied
    /\ st[DeployProduction] = "success"

\* the terminal state the steps an instance executed give it
OwnOutcome(i) ==
    IF log[i] # <<>> /\ log[i][Len(log[i])] = "failure"
       /\ ~Steps(i.job)[Len(log[i])].coe
    THEN "failure"
    ELSE IF Len(log[i]) = Len(Steps(i.job)) THEN "success"
    ELSE "none"

(* C4: no instance of a matrix job (lint, build) is cancelled, and each    *)
(* that ended has the terminal state its own steps gave it.                *)
C4_MatrixIndependent ==
    \A j \in {"lint", "build"} : \A i \in InstancesOf(j) :
        /\ st[i] # "cancelled"
        /\ st[i] \in {"success", "failure"} => st[i] = OwnOutcome(i)

NoFailure(results) ==
    \A n \in 1..Len(results) : results[n] # "failure"

(* C5: when lint(backend) failed and no step of lint(frontend) failed, the *)
(* completed run has lint(frontend) in success, test skipped and every     *)
(* build instance skipped.                                                 *)
C5_LintBackendFails ==
    (/\ run = "completed"
     /\ st[Lint("backend")] = "failure"
     /\ NoFailure(log[Lint("frontend")])) =>
        /\ st[Lint("frontend")] = "success"
        /\ st[Test] = "skipped"
        /\ \A c \in Components : st[Build(c)] = "skipped"

C7_Conclusion ==
    run = "completed" =>
        /\ conclusion = "failure" <=> \E i \in Instances : st[i] = "failure"
        /\ (\A i \in Instances : st[i] \in {"success", "skipped"}) =>
                conclusion = "success"

C7_Witness ==
    /\ run = "completed"
    /\ conclusion = "success"
    /\ \A c \in Components : st[Build(c)] = "skipped"
    /\ st[Test] = "success"

\* the forward order of the states of an instance
StatedTransitions ==
    {<<"pending", "blocked-by-dependency">>, <<"pending", "skipped">>,
     <<"pending", "running">>, <<"blocked-by-dependency", "skipped">>,
     <<"blocked-by-dependency", "running">>, <<"running", "success">>,
     <<"running", "failure">>}

(* C8: an instance changes state only along pending, then blocked, skipped *)
(* or running, then success or failure.                                    *)
C8_ForwardOnly ==
    [][\A i \in Instances :
          st'[i] # st[i] => <<st[i], st'[i]>> \in StatedTransitions]_vars

(* C9: in a context that does not match a deploy job's promotion rule the  *)
(* job never runs and ends skipped, no step of it executes, its            *)
(* environment's secrets and variables are not bound and its manifests are *)
(* not applied.                                                            *)
C9_NoSideEffects ==
    \A d \in DeployJobs :
        ~StatedRule(d) =>
            /\ st[d] \in {"pending", "skipped"}
            /\ log[d] = <<>>
            /\ Environment(d.job) \notin bound
            /\ ManifestDir(d.job) \notin applied
            /\ run = "completed" => st[d] = "skipped"

C9_Witness ==
    /\ ctx = Event("push", Branch(<<"feature", "x">>), <<>>, NoInput)
    /\ run = "completed"
    /\ AllSuccess("build")
    /\ st[DeployStaging] = "skipped"
    /\ bound = {}
    /\ applied = {}

(* C10: once every build instance succeeded, a deploy job runs only in a   *)
(* context its promotion rule accepts, is skipped only in one it does not, *)
(* and in the completed run it has run exactly when the rule accepts.      *)
C10_PromotionRules ==
    AllSuccess("build") =>
        \A d \in DeployJobs :
            /\ Started(d) => StatedRule(d)
            /\ st[d] = "skipped" => ~StatedRule(d)
            /\ run = "completed" => (Started(d) <=> StatedRule(d))

C10_Witness ==
    /\ ctx = Event("workflow_dispatch", Branch(<<"develop">>), <<>>,
                   "production")
    /\ run = "completed"
    /\ st[DeployProduction] = "success"
    /\ st[DeployStaging] = "skipped"

----------------------------------------------------------------------------
\* the position of the step called `name` among the steps of job j
StepIndex(j, name) ==
    CHOOSE n \in 1..Len(Steps(j)) : Steps(j)[n].name = name

\* the result of the step called `name` in instance i, "none" before it ends
StepResult(i, name) ==
    IF StepIndex(i.job, name) <= Len(log[i])
    THEN log[i][StepIndex(i.job, name)]
    ELSE "none"

\* the step the run report shows as the one that failed the instance
FailedStep(i) ==
    IF st[i] = "failure" THEN Steps(i.job)[Len(log[i])].name ELSE "-"

(* C11: a deploy job whose rollout check succeeded and whose smoke tests   *)
(* failed is in failure with its manifests still applied, and the report   *)
(* names the smoke tests as the failed step, where a failed rollout check  *)
(* names the rollout check.                                                *)
C11_SmokeTestFailure ==
    \A d \in DeployJobs :
        /\ (/\ StepResult(d, "Verify deployment") = "success"
            /\ StepResult(d, "Run smoke tests") = "failure") =>
                /\ st[d] = "failure"
                /\ ManifestDir(d.job) \in applied
                /\ FailedStep(d) = "Run smoke tests"
        /\ StepResult(d, "Verify deployment") = "failure" =>
                /\ st[d] = "failure"
                /\ FailedStep(d) = "Verify deployment"

C11_Witness ==
    /\ run = "completed"
    /\ StepResult(DeployProduction, "Verify deployment") = "success"
    /\ StepResult(DeployProduction, "Run smoke tests") = "failure"
    /\ st[DeployProduction] = "failure"
    /\ "production" \in applied

(* C12: production manifests are applied only when this commit's staging   *)
(* deployment succeeded or the run is a manual dispatch for production.    *)
C12_ProductionAfterStaging ==
    "production" \in applied =>
        \/ st[DeployStaging] = "success"
        \/ ctx.event_name = "workflow_dispatch"
           /\ ctx.environment = "production"

\* a step of the run leaves the image of the registry entry r as it was
Kept(r) ==
    \A q \in registry' :
        (q.component = r.component /\ q.tag = r.tag) => q.image = r.image

\* the tag type=ref,event=branch gives: the name of the branch of the run
BranchTag == Tag("", ctx.ref.name)

(* C14 as stated: no step of a run gives a component:tag that is in the    *)
(* registry a different image.                                             *)
C14_TagsNeverMoved ==
    [][\A r \in registry : Kept(r)]_vars

(* C14: the build moves only the tag named after the branch; no step gives *)
(* any other component:tag that is in the registry a different image.      *)
C14_OnlyBranchTagMoved ==
    [][\A r \in registry : r.tag # BranchTag => Kept(r)]_vars

C14_Witness ==
    \E r, q \in registry :
        /\ r.component = "backend" /\ q.component = "backend"
        /\ r.tag = Tag("", ParentSha) /\ r.image = ParentSha
        /\ q.tag = BranchTag /\ q.image = GithubSha

(* C15: where a deploy job applied its manifests, the image reference of   *)
(* every component has a tag made of the commit SHA of the run, and the    *)
(* registry holds that component:tag with the image built from the commit. *)
C15_ManifestImagesPublished ==
    \A d \in DeployJobs :
        ManifestDir(d.job) \in applied =>
            \A c \in Components :
                /\ ManifestImage(c).tag.text =
                       SubSeq(GithubSha, 1, Len(ManifestImage(c).tag.text))
                /\ \E r \in registry :
                       /\ r.component = c
                       /\ r.tag = ManifestImage(c).tag
                       /\ r.image = GithubSha

\* the deploy job is between its kubectl apply and the end of its rollout
\* check
Applying(d) ==
    /\ st[d] = "running"
    /\ StepResult(d, "Deploy to Kubernetes") = "success"
    /\ StepResult(d, "Verify deployment") = "none"

(* C13: a deploy job of this run and the deploy job of the later run to    *)
(* the same environment are never both between kubectl apply and the end   *)
(* of the rollout check.                                                   *)
C13_DeploysSerialized ==
    \A d \in DeployJobs :
        ~(Applying(d) /\ peer = "applying" /\ d.job \in PeerDeploys)

(* C20: once a later push to the same ref has superseded the run, an       *)
(* instance that has not started does not start and is not skipped, it is  *)
(* cancelled, and an instance in progress is cancelled when its step ends. *)
C20_SupersededRunCancelled ==
    [][peer # "none" =>
          \A i \in Instances :
              /\ st[i] = "pending" => st'[i] \in {"pending", "cancelled"}
              /\ (st[i] = "running" /\ log'[i] # log[i]) =>
                     st'[i] = "cancelled"]_vars

\* the steps of instance i that have executed, by position
Executed(i) == {n \in 1..Len(log[i]) : log[i][n] # "skipped"}

\* the results of instance i are those it had, followed by at most one
\* step that executed
OneMoreStep(i) ==
    /\ Len(log'[i]) >= Len(log[i])
    /\ SubSeq(log'[i], 1, Len(log[i])) = log[i]
    /\ Cardinality({n \in Len(log[i]) + 1..Len(log'[i]) :
                        log'[i][n] # "skipped"}) <= 1

\* the failure of a step that does not ignore it is the last result of the
\* instance, and the instance is in failure
FirstFailureAborts(i) ==
    \A n \in 1..Len(log[i]) :
        (log[i][n] = "failure" /\ ~Steps(i.job)[n].coe) =>
            /\ n = Len(log[i])
            /\ st[i] = "failure"

(* C19: the steps of an instance execute one at a time in the order they   *)
(* are declared, and the first failure of a step that does not ignore      *)
(* failure is the last step the instance executes and puts it in failure.  *)
C19_StepsSequential ==
    /\ [](\A i \in Instances : FirstFailureAborts(i))
    /\ [][\A i \in Instances : OneMoreStep(i)]_vars

C19_Witness ==
    /\ run = "completed"
    /\ st[Test] = "failure"
    /\ StepResult(Test, "Run frontend tests") = "success"
    /\ StepResult(Test, "Run backend tests") = "failure"
    /\ StepResult(Test, "Run ML service tests") = "none"
    /\ StepResult(SecurityScan, "Run dependency scanning") = "failure"
    /\ st[SecurityScan] = "success"

(* C17: the order in which instances start is fixed by the plan: in no     *)
(* state are two instances both ready to start, and in no state can an     *)
(* instance both go on with its steps and be cancelled.                    *)
C17_Deterministic ==
    /\ \A i, k \in Instances :
           (i # k /\ ENABLED StartInstance(i)) => ~ENABLED StartInstance(k)
    /\ \A i \in Instances :
           st[i] = "running" => ~ENABLED CancelInstance(i)

----------------------------------------------------------------------------
\* the matrices the expansion is compared on: up to MaxAxes axes, each one
\* of AxisChoices
MaxAxes == 2

AxisChoices == {<<"x">>, <<"x", "y">>, <<"x", "y", "z">>}

SmallMatrices == UNION {[1..k -> AxisChoices] : k \in 0..MaxAxes}

RECURSIVE Product(_)
Product(axes) ==
    IF axes = << >> THEN 1 ELSE Len(Head(axes)) * Product(Tail(axes))

\* the position in axis k of the value the n-th combination has for it,
\* when the first axis varies slowest
Position(axes, k, n) ==
    (((n - 1) \div Product(SubSeq(axes, k + 1, Len(axes)))) % Len(axes[k]))
        + 1

\* the expansion of axes is their cartesian product, first axis slowest
IsProduct(axes) ==
    LET e == Expand(axes)
    IN  /\ Len(e) = Product(axes)
        /\ \A n \in 1..Len(e) :
               /\ Len(e[n]) = Len(axes)
               /\ \A k \in 1..Len(axes) :
                      e[n][k] = axes[k][Position(axes, k, n)]
        /\ \A m, n \in 1..Len(e) : m # n => e[m] # e[n]

ExpansionIsProduct == \A axes \in SmallMatrices : IsProduct(axes)

(* C22: a job without a matrix has exactly one instance; lint and build,   *)
(* with one axis of three values, have three instances with distinct       *)
(* values in the order declared; several axes give the cartesian product,  *)
(* first axis slowest; and every instance exists in every state of the     *)
(* run, from the one before any step executed.                             *)
C22_MatrixExpansion ==
    /\ \A j \in JobNames :
           MatrixAxes(j) = << >> => Cardinality(InstancesOf(j)) = 1
    /\ \A j \in {"lint", "build"} :
           /\ Len(MatrixAxes(j)) = 1
           /\ Len(Combinations[j]) = 3
           /\ Cardinality(InstancesOf(j)) = 3
           /\ \A n \in 1..3 :
                  /\ Combinations[j][n] = <<MatrixAxes(j)[1][n]>>
                  /\ Inst(j, MatrixAxes(j)[1][n]) \in InstancesOf(j)
    /\ ExpansionIsProduct
    /\ DOMAIN st = Instances
    /\ DOMAIN log = Instances
    /\ (\E i \in Instances : log[i] # << >>) => run # "none"

C22_Witness ==
    /\ \A c \in Components : st[Lint(c)] = "success"
    /\ \A c \in Components : st[Build(c)] = "running"
    /\ st[Test] = "success"

(* C23: the push of a tag starts a run, and in it the condition of         *)
(* deploy-production holds, so that the job executes once the builds       *)
(* succeeded.                                                              *)
C23_TagsDeployProduction ==
    (ctx.event_name = "push" /\ ctx.ref.kind = "tags") =>
        /\ run # "none"
        /\ If("deploy-production", ctx)
        /\ (run = "completed" /\ AllSuccess("build")) =>
               Started(DeployProduction)

(* C24: in a run for a pull request, test executes once every lint         *)
(* instance succeeded, no build instance and no deploy job ever runs, no   *)
(* image is pushed and no manifest is applied.                             *)
C24_PullRequestTestsOnly ==
    (ctx.event_name = "pull_request" /\ run # "none") =>
        /\ ctx.base \in {<<"main">>, <<"develop">>}
        /\ AllSuccess("lint") =>
               /\ st[Test] # "skipped"
               /\ st[Test] = "pending" => ENABLED StartInstance(Test)
               /\ run = "completed" => Started(Test)
        /\ \A c \in Components : ~Started(Build(c))
        /\ \A d \in DeployJobs : ~Started(d)
        /\ registry = EarlierBuild(ctx)
        /\ applied = {}
        /\ bound = {}

C24_Witness ==
    /\ ctx.event_name = "pull_request"
    /\ ctx.base = <<"develop">>
    /\ run = "completed"
    /\ AllSuccess("lint")
    /\ st[Test] = "success"
    /\ st[SecurityScan] = "success"
    /\ \A c \in Components : st[Build(c)] = "skipped"
    /\ \A d \in DeployJobs : st[d] = "skipped"

\* the environment each deploy job is stated to deploy to
StatedEnvironment(d) ==
    IF d = DeployStaging THEN "staging" ELSE "production"

\* instance i acts in the step: it starts, is skipped or runs a step
Acts(i) == st'[i] # st[i] \/ log'[i] # log[i]

(* C25: the secrets and variables of an environment are bound only in a    *)
(* run whose deploy job for that environment has started, and its          *)
(* manifests are applied only by that job; a step of a deploy job binds    *)
(* and applies nothing of the other environment and pushes no image.       *)
C25_EnvironmentsIsolated ==
    /\ [](\A d \in DeployJobs :
             /\ StatedEnvironment(d) \in bound => Started(d)
             /\ StatedEnvironment(d) \in applied =>
                    StepResult(d, "Deploy to Kubernetes") # "none")
    /\ [][\A d \in DeployJobs :
             Acts(d) =>
                 /\ bound' \ bound \subseteq {StatedEnvironment(d)}
                 /\ applied' \ applied \subseteq {StatedEnvironment(d)}
                 /\ bound \subseteq bound'
                 /\ applied \subseteq applied'
                 /\ registry' = registry]_vars

C25_Witness ==
    /\ run = "completed"
    /\ st[DeployStaging] = "success"
    /\ bound = {"staging"}
    /\ applied = {"staging"}
    /\ st[DeployProduction] = "skipped"
    /\ ctx.event_name = "workflow_dispatch"

Trivy == "Run Trivy vulnerability scanner for Docker images"

(* C26: security-scan fails exactly when its checkout or its Trivy scan    *)
(* failed and succeeds when both succeeded, whatever the outcome of the    *)
(* dependency scanning; after a failed Trivy scan no build instance runs   *)
(* and every build instance of the completed run is skipped.               *)
C26_IgnoredFailure ==
    /\ st[SecurityScan] = "failure" <=>
           \/ StepResult(SecurityScan, "Checkout repository") = "failure"
           \/ StepResult(SecurityScan, Trivy) = "failure"
    /\ (/\ StepResult(SecurityScan, Trivy) = "success"
        /\ StepResult(SecurityScan, "Run dependency scanning") # "none") =>
           st[SecurityScan] = "success"
    /\ StepResult(SecurityScan, Trivy) = "failure" =>
           /\ StepResult(SecurityScan, "Run dependency scanning") = "none"
           /\ \A c \in Components : ~Started(Build(c))
           /\ run = "completed" =>
                  \A c \in Components : st[Build(c)] = "skipped"

C26_Witness ==
    /\ StepResult(SecurityScan, "Run dependency scanning") = "failure"
    /\ st[SecurityScan] = "success"
    /\ \A c \in Components : st[Build(c)] = "success"

\* the jobs that job j needs, directly or through other jobs
Ancestors(j) == {a \in JobNames \ {j} : j \in DependentsFrom(a)}

(* C27: an instance none of whose direct or transitive needs has a failed  *)
(* instance is untouched by the failures of the run: it is not cancelled,  *)
(* it is skipped only where a condition of its job or of a job it needs is *)
(* false, and it ends as its own steps ended.                              *)
C27_FailureForwardOnly ==
    \A k \in Instances :
        (\A a \in Ancestors(k.job) : ~Failed(a)) =>
            /\ st[k] # "cancelled"
            /\ st[k] = "skipped" =>
                   \E j \in Ancestors(k.job) \cup {k.job} : ~If(j, ctx)
            /\ st[k] \in {"success", "failure"} => st[k] = OwnOutcome(k)

\* the rollout of every deployment was checked and reported success
RolledOut(d) ==
    /\ Len(rollout[d.job]) = Len(RolloutChecks)
    /\ \A k \in 1..Len(RolloutChecks) : rollout[d.job][k] = "success"

(* C28: in a deploy job the manifests are applied only after the           *)
(* credentials were configured and the image names set, the rollout is     *)
(* checked only after the manifests were applied, and the smoke tests run  *)
(* only after the rollout of frontend, backend and ml-service each         *)
(* reported success, never after a rollout that failed.                    *)
C28_GateOrder ==
    \A d \in DeployJobs :
        /\ (\/ StepResult(d, "Deploy to Kubernetes") # "none"
            \/ ManifestDir(d.job) \in applied) =>
               /\ StepResult(d, "Configure AWS credentials") = "success"
               /\ StepResult(d, "Set image names") = "success"
        /\ (\/ StepResult(d, "Verify deployment") # "none"
            \/ rollout[d.job] # << >>) =>
               /\ StepResult(d, "Deploy to Kubernetes") = "success"
               /\ ManifestDir(d.job) \in applied
        /\ StepResult(d, "Run smoke tests") # "none" => RolledOut(d)
        /\ (\E k \in 1..Len(rollout[d.job]) :
                rollout[d.job][k] = "failure") =>
               /\ StepResult(d, "Run smoke tests") = "none"
               /\ st[d] = "failure"

C28_Witness ==
    /\ st[DeployStaging] = "success"
    /\ RolledOut(DeployStaging)
    /\ StepResult(DeployStaging, "Run smoke tests") = "success"

(* C29: for no context do the conditions of deploy-staging and of          *)
(* deploy-production both hold, and in no run have both jobs started or    *)
(* both environments been bound.                                           *)
C29_OneDeployPerRun ==
    /\ ~(If("deploy-staging", ctx) /\ If("deploy-production", ctx))
    /\ ~(Started(DeployStaging) /\ Started(DeployProduction))
    /\ Cardinality(bound) <= 1
    /\ Cardinality(applied) <= 1

C29_Witness ==
    /\ ctx.event_name = "workflow_dispatch"
    /\ ctx.ref = Branch(<<"develop">>)
    /\ ctx.environment = "production"
    /\ st[DeployProduction] = "running"
    /\ "production" \in applied
    /\ st[DeployStaging] = "skipped"

\* the steps of lint stated to run for component c
StatedLintSteps(c) ==
    CASE c = "frontend" ->
            {"Checkout repository", "Set up Node.js (Frontend)",
             "Install frontend dependencies", "Lint frontend"}
      [] c = "backend" ->
            {"Checkout repository", "Set up Python (Backend & ML Service)",
             "Install backend dependencies", "Lint backend"}
      [] c = "ml-service" ->
            {"Checkout repository", "Set up Python (Backend & ML Service)",
             "Install ML service dependencies", "Lint ML service"}

(* C30: of the steps a lint instance went through, those that executed are *)
(* the checkout, the set-up of the language of its component and the       *)
(* install and lint steps of its component; all others were skipped; and   *)
(* an instance that succeeded went through every step.                     *)
C30_LintOwnSteps ==
    \A c \in Components :
        /\ \A n \in 1..Len(log[Lint(c)]) :
               log[Lint(c)][n] # "skipped" <=>
                   LintSteps[n].name \in StatedLintSteps(c)
        /\ st[Lint(c)] = "success" =>
               {LintSteps[n].name : n \in Executed(Lint(c))}
                   = StatedLintSteps(c)

C30_Witness ==
    /\ \A c \in Components : st[Lint(c)] = "success"
    /\ StepResult(Lint("ml-service"), "Lint ML service") = "success"
    /\ StepResult(Lint("ml-service"), "Lint backend") = "skipped"
    /\ StepResult(Lint("frontend"), "Set up Python (Backend & ML Service)")
           = "skipped"

----------------------------------------------------------------------------
\* the filter and detection requests without a response
Processing == Outstanding({"filter", "detect"})

(* C31: isProcessing is true exactly while a filter or detection request   *)
(* is without a response, there is never more than one such request, and   *)
(* every response to one, success or error, leaves isProcessing false.     *)
C31_IsProcessing ==
    /\ [](/\ editor.isProcessing <=> Processing # {}
          /\ Cardinality(Processing) <= 1
          /\ \A item \in Processing : CopiesIn(item, pending) = 1)
    /\ [][\A item \in Processing, ok \in BOOLEAN :
             (FilterSettled(item, ok) \/ DetectSettled(item, ok)) =>
                 ~editor'.isProcessing]_vars

C31_Witness ==
    /\ editor.isProcessing
    /\ BagIn(Item("detect", ImageId("a.png")), pending)
    /\ editor.currentImage.src = ProcessedSrc(ImageId("a.png"))

(* C32: the src and the id of the displayed image are those of the file it *)
(* was loaded from: the data of the file or the result of processing it,   *)
(* and no id or the id of its upload.                                      *)
C32_ImageOfLatestDrop ==
    editor.currentImage # NoImage =>
        /\ editor.currentImage.src \in
               {Original(editor.currentImage.file),
                ProcessedSrc(ImageId(editor.currentImage.file))}
        /\ editor.currentImage.id \in
               {NoId, ImageId(editor.currentImage.file)}

(* C33: Reset on an image that has an id puts back the original src and    *)
(* the default settings, clears the detection results and keeps the id,    *)
(* so that Apply Changes and Detect Objects stay enabled.                  *)
C33_ResetKeepsId ==
    [][(HandleReset /\ editor.currentImage.id # NoId) =>
          /\ editor'.currentImage.src = editor.originalImage.src
          /\ editor'.processingSettings = DefaultSettings
          /\ editor'.objectDetectionResults = NoDetections
          /\ editor'.currentImage.id = editor.currentImage.id
          /\ ~editor.isProcessing => Enabled']_vars

\* Show Original is held down and still shows what pressing it displayed:
\* the original of the image that was displayed before
ShowsOriginal ==
    /\ history.beforePress # NoPress
    /\ editor.currentImage = editor.originalImage
    /\ history.beforePress.file = editor.originalImage.file

(* C34: when Show Original is released, or left while pressed, the image   *)
(* displayed is again the one that was displayed before it was pressed.    *)
C34_ShowOriginalRoundTrip ==
    [][(/\ OnMouseUp \/ OnMouseLeave
        /\ ShowsOriginal) =>
           editor'.currentImage = history.beforePress]_vars

RECURSIVE Requires(_, _)
\* the services that the services in ss depend on, through at most n steps
Requires(ss, n) ==
    IF n = 0 THEN {}
    ELSE LET direct == UNION {DependsOn(s) : s \in ss}
         IN  direct \cup Requires(direct, n - 1)

\* no service depends on itself, directly or through others
Acyclic ==
    \A s \in Services : s \notin Requires({s}, Cardinality(Services))

(* C35: depends_on has no cycle, and every started service has each        *)
(* service it depends on started and on a network it is attached to too.   *)
C35_DependenciesReachable ==
    /\ Acyclic
    /\ \A s \in up : \A d \in DependsOn(s) :
           /\ d \in up
           /\ Networks(s) \cap Networks(d) # {}

====
